---- MODULE Spec2Model ----
\* A model of package envelope (nycmonkey/envelope): the journal-envelope
\* parser of src/envelope.go (Parse, extractParts, ParseBody, splitHeader,
\* appendUniq) and the earlier text-conversion variant of src/unnamed/part_000.
\*
\* Go strings are modelled as sequences of one-character strings, so that
\* strings.Split, strings.Contains, strings.ToLower and friends are computed
\* character by character as the library computes them.
EXTENDS Integers, Sequences, FiniteSets, TLC

VARIABLES
    pc,        \* Parse: the statement the calling goroutine is at
    err,       \* Parse: the named result err
    m,         \* Parse: the named result m (a pointer: nil or the Message)
    received,  \* Parse: the envelope's Date header, once read
    b,         \* Parse: the decoded outer MIME body (Text, OtherParts), once decoded
    Parts,     \* the heap field m.Parts, appended to by the collector
    ch,        \* partCollector: the buffered elements of the channel
    closed,    \* partCollector: close() has been called
    cpc,       \* the collector goroutine's position
    held,      \* the collector's loop variable p, between receive and append
    stack,     \* the call stack of extractParts: one frame per active call
    md,        \* ParseBody: the Metadata under construction
    line,      \* ParseBody: the line scanner.Text() returned last
    nlines,    \* ParseBody: how many lines have been scanned
    given,     \* the recipient list a header value was written from
    bodyText,  \* ParseBody: its parameter b, the text given to the scanner
    rest,      \* ParseBody: the part of the text the scanner has not read yet
    b2         \* Parse (part_000): the decoded wrapped message, once decoded

vars == <<pc, err, m, received, b, Parts, ch, closed, cpc, held, stack,
          md, line, nlines, given, bodyText, rest, b2>>

\* The text under the scanner
scanVars == <<bodyText, rest>>

parseVars == <<pc, err, m, received, b, Parts, ch, closed, cpc, held, stack>>

bodyVars == <<md, line, nlines, given>>

\* ---------------------------------------------------------------- bounds

\* ParseBody: lines scanned in one run.
MaxLines == 2
\* Recipient values: addresses listed in one header value.
MaxAddrs == 3
\* extractParts: nodes (MIME parts, over all nesting levels) of the wrapped tree.
MaxNodes == 4
\* Parse: non-text parts of the outer message.
MaxOther == 2

\* ------------------------------------------------------- package strings

UpperChars ==
    <<"A", "B", "C", "D", "E", "F", "G", "H", "I", "J", "K", "L", "M",
      "N", "O", "P", "Q", "R", "S", "T", "U", "V", "W", "X", "Y", "Z">>

LowerChars ==
    <<"a", "b", "c", "d", "e", "f", "g", "h", "i", "j", "k", "l", "m",
      "n", "o", "p", "q", "r", "s", "t", "u", "v", "w", "x", "y", "z">>

UpperSet == {UpperChars[i] : i \in DOMAIN UpperChars}

\* unicode.ToLower on the letters A to Z
LowerOf == [c \in UpperSet |-> LowerChars[CHOOSE i \in DOMAIN UpperChars : UpperChars[i] = c]]

LowerChar(c) == IF c \in UpperSet THEN LowerOf[c] ELSE c

\* strings.ToLower
ToLower(s) == [i \in 1..Len(s) |-> LowerChar(s[i])]

\* strings.Index, 1-based; 0 when sep does not occur in s
Index(s, sep) ==
    LET at(i) == SubSeq(s, i, i + Len(sep) - 1) = sep
        hits  == {i \in 1..(Len(s) - Len(sep) + 1) : at(i)}
    IN  IF hits = {} THEN 0 ELSE CHOOSE i \in hits : \A j \in hits : i <= j

\* strings.Contains
Contains(s, sep) == Index(s, sep) # 0

\* strings.SplitN(s, sep, n) for n >= 1 and a non-empty sep
RECURSIVE SplitN(_, _, _)
SplitN(s, sep, n) ==
    LET i == Index(s, sep)
    IN  IF n <= 1 \/ i = 0
        THEN <<s>>
        ELSE <<SubSeq(s, 1, i - 1)>>
             \o SplitN(SubSeq(s, i + Len(sep), Len(s)), sep, n - 1)

\* strings.Split(s, sep) for a non-empty sep: every occurrence splits
RECURSIVE Split(_, _)
Split(s, sep) ==
    LET i == Index(s, sep)
    IN  IF i = 0
        THEN <<s>>
        ELSE <<SubSeq(s, 1, i - 1)>> \o Split(SubSeq(s, i + Len(sep), Len(s)), sep)

\* strings.TrimLeft for a one-character cutset: every leading p goes
RECURSIVE TrimLeft(_, _)
TrimLeft(s, p) ==
    IF Len(s) >= Len(p) /\ SubSeq(s, 1, Len(p)) = p
    THEN TrimLeft(SubSeq(s, Len(p) + 1, Len(s)), p)
    ELSE s

\* strings.TrimPrefix
TrimPrefix(s, p) ==
    IF Len(s) >= Len(p) /\ SubSeq(s, 1, Len(p)) = p
    THEN SubSeq(s, Len(p) + 1, Len(s))
    ELSE s

\* strings.TrimSuffix
TrimSuffix(s, p) ==
    IF Len(s) >= Len(p) /\ SubSeq(s, Len(s) - Len(p) + 1, Len(s)) = p
    THEN SubSeq(s, 1, Len(s) - Len(p))
    ELSE s

\* ------------------------------------------------------ string literals

ColonSpace    == <<":", " ">>
CommaForwarded == <<",", " ", "F", "o", "r", "w", "a", "r", "d", "e", "d", ":", " ">>
CommaExpanded == <<",", " ", "E", "x", "p", "a", "n", "d", "e", "d", ":", " ">>
SpaceExpanded == <<" ", "E", "x", "p", "a", "n", "d", "e", "d", ":", " ">>

KeySender     == <<"S", "e", "n", "d", "e", "r">>
KeyOnBehalfOf == <<"O", "n", "-", "B", "e", "h", "a", "l", "f", "-", "O", "f">>
KeySubject    == <<"S", "u", "b", "j", "e", "c", "t">>
KeyMessageId  == <<"M", "e", "s", "s", "a", "g", "e", "-", "I", "d">>
KeyRecipient  == <<"R", "e", "c", "i", "p", "i", "e", "n", "t">>
KeyTo         == <<"T", "o">>
KeyCc         == <<"C", "c">>
KeyBcc        == <<"B", "c", "c">>

\* ------------------------------------------------ Metadata and ParseBody

\* &Metadata{}: every string empty, every slice nil, the zero time
EmptyMetadata ==
    [Sender |-> <<>>, OnBehalfOf |-> <<>>, Subject |-> <<>>, MessageID |-> <<>>,
     To |-> <<>>, CC |-> <<>>, BCC |-> <<>>, Timestamp |-> "zero"]

splitHeader(h) ==
    LET kv == SplitN(h, ColonSpace, 2)
    IN  IF Len(kv) < 2
        THEN [k |-> <<>>, v |-> <<>>, ok |-> FALSE]
        ELSE [k |-> kv[1], v |-> kv[2], ok |-> TRUE]

\* appendUniq without the lower-casing of line 171
RECURSIVE appendUniqNoLower(_, _)
appendUniqNoLower(start, more) ==
    IF more = <<>>
    THEN start
    ELSE LET x == Head(more)
         IN  IF \E i \in DOMAIN start : start[i] = x
             THEN appendUniqNoLower(start, Tail(more))
             ELSE appendUniqNoLower(Append(start, x), Tail(more))

\* appendUniq with a plain continue at line 174: the inner loop alone is
\* continued, and every m is appended
RECURSIVE appendUniqPlainContinue(_, _)
appendUniqPlainContinue(start, more) ==
    IF more = <<>>
    THEN start
    ELSE appendUniqPlainContinue(Append(start, ToLower(Head(more))), Tail(more))

RECURSIVE appendUniq(_, _)
appendUniq(start, more) ==
    IF more = <<>>
    THEN start
    ELSE LET x == ToLower(Head(more))
         IN  IF \E i \in DOMAIN start : start[i] = x
             THEN appendUniq(start, Tail(more))
             ELSE appendUniq(Append(start, x), Tail(more))

\* The recipient candidates of a header value, as envelope.go splits it.
recipientSplit(v) ==
    IF Contains(v, CommaForwarded)
    THEN Split(v, CommaForwarded)
    ELSE Split(v, CommaExpanded)

\* The body of ParseBody's scan loop (envelope.go): one line applied to m.
ParseBodyLine(mt, h) ==
    LET kv == splitHeader(h)
        k  == kv.k
        v  == kv.v
    IN  IF ~kv.ok THEN mt
        ELSE IF k = KeySender THEN [mt EXCEPT !.Sender = ToLower(v)]
        ELSE IF k = KeyOnBehalfOf THEN [mt EXCEPT !.OnBehalfOf = v]
        ELSE IF k = KeySubject THEN [mt EXCEPT !.Subject = v]
        ELSE IF k = KeyMessageId
             THEN [mt EXCEPT !.MessageID = TrimSuffix(TrimPrefix(v, <<"<">>), <<">">>)]
        ELSE IF k \in {KeyRecipient, KeyTo}
             THEN [mt EXCEPT !.To = appendUniq(mt.To, recipientSplit(v))]
        ELSE IF k = KeyCc
             THEN [mt EXCEPT !.CC = appendUniq(mt.CC, recipientSplit(v))]
        ELSE IF k = KeyBcc
             THEN IF Contains(v, CommaForwarded)
                  THEN [mt EXCEPT !.CC = appendUniq(mt.CC, Split(v, CommaForwarded))]
                  ELSE [mt EXCEPT !.BCC = appendUniq(mt.BCC, Split(v, CommaExpanded))]
        ELSE mt

\* ParseBody over a whole body, given as the lines the scanner yields.
RECURSIVE ParseBodyFrom(_, _)
ParseBodyFrom(mt, lines) ==
    IF lines = <<>>
    THEN mt
    ELSE ParseBodyFrom(ParseBodyLine(mt, Head(lines)), Tail(lines))

ParseBody(lines) == ParseBodyFrom(EmptyMetadata, lines)

\* The scan loop of the text-conversion variant (part_000): one line applied.
ParseBodyLine_p0(mt, h) ==
    LET kv == splitHeader(h)
        k  == kv.k
        v  == kv.v
    IN  IF ~kv.ok THEN mt
        ELSE IF k = KeySender THEN [mt EXCEPT !.Sender = ToLower(v)]
        ELSE IF k = KeyOnBehalfOf THEN [mt EXCEPT !.OnBehalfOf = v]
        ELSE IF k = KeySubject THEN [mt EXCEPT !.Subject = v]
        ELSE IF k = KeyMessageId
             THEN [mt EXCEPT !.MessageID = TrimSuffix(TrimPrefix(v, <<"<">>), <<">">>)]
        ELSE IF k \in {KeyRecipient, KeyTo}
             THEN [mt EXCEPT !.To = appendUniq(mt.To, Split(v, SpaceExpanded))]
        ELSE IF k = KeyCc
             THEN [mt EXCEPT !.CC = appendUniq(mt.CC, Split(v, SpaceExpanded))]
        ELSE IF k = KeyBcc
             THEN [mt EXCEPT !.BCC = appendUniq(mt.BCC, Split(v, SpaceExpanded))]
        ELSE mt

\* ------------------------------------------------- ParseBody, step by step

AddrA   == <<"a", "@", "x">>
AddrAUp == <<"A", "@", "X">>
AddrB   == <<"b", "@", "x">>
Addrs   == {AddrA, AddrAUp, AddrB}

Separators == {CommaExpanded, CommaForwarded, SpaceExpanded}
RecipientKeys == {KeyRecipient, KeyTo, KeyCc, KeyBcc}

Header(k, v) == k \o ColonSpace \o v

\* Recipient header values of a body line: one address, or two joined by a
\* dialect separator.
BodyRecipientValues ==
    Addrs \cup {x \o sep \o y : x \in Addrs, sep \in Separators, y \in Addrs}

BodyRecipientLines == {Header(k, v) : k \in RecipientKeys, v \in BodyRecipientValues}

BodyScalarLines ==
    { Header(KeySender, AddrAUp), Header(KeySender, AddrB),
      Header(KeyOnBehalfOf, AddrAUp),
      Header(KeySubject, <<"R", "e", ":", " ", "H", "i">>),
      Header(KeyMessageId, <<"<", "a", ">">>),
      Header(KeyMessageId, <<"a">>),
      Header(KeyMessageId, <<"<", "<", "a", ">", ">">>),
      Header(KeyMessageId, <<"<", "a">>),
      Header(KeyMessageId, <<"a", ">">>),
      Header(KeyMessageId, <<"<", ">">>) }

\* Lines with an unrecognized key, and lines that are no header lines.
BodyOtherLines ==
    { Header(<<"X", "-", "I", "d">>, <<"1">>),
      Header(<<"t", "o">>, AddrB),
      <<>>,
      <<"t", "e", "x", "t">>,
      <<"T", "o", ":">> \o AddrB }

BodyLines == BodyRecipientLines \cup BodyScalarLines \cup BodyOtherLines

NilError == [nil |-> TRUE, text |-> <<>>]
Error(text) == [nil |-> FALSE, text |-> text]

NoHash == [alg |-> "none", of |-> <<>>]
NilMessage == [nil |-> TRUE, SHA256 |-> NoHash, Metadata |-> EmptyMetadata]
\* b before enmime.ParseMIMEBody has returned a body
NoBody == [ok |-> FALSE, Text |-> <<>>, OtherParts |-> <<>>]
NoPart == [ct |-> "", kids |-> <<>>, status |-> "none", inner |-> <<>>, content |-> <<>>]

\* Everything Parse owns, before Parse is called.
ParseIdle ==
    /\ err = NilError
    /\ m = NilMessage
    /\ received = "zero"
    /\ b = NoBody
    /\ Parts = <<>>
    /\ ch = <<>>
    /\ closed = FALSE
    /\ cpc = "none"
    /\ held = NoPart
    /\ stack = <<>>

NoneGiven == [addrs |-> <<>>, seps |-> <<>>]

\* No text under a scanner, and no wrapped message decoded.
NoScan == bodyText = <<>> /\ rest = <<>> /\ b2 = NoBody

InitBody ==
    /\ pc = "ParseBody"
    /\ ParseIdle
    /\ NoScan
    /\ md = EmptyMetadata
    /\ line = <<>>
    /\ nlines = 0
    /\ given = NoneGiven

\* The scan loop with break in place of the continue of line 123: a line that
\* is no header line ends the scan.
ParseBodyScanBreak ==
    /\ pc = "ParseBody"
    /\ nlines < MaxLines
    /\ \E h \in BodyLines :
        /\ line' = h
        /\ md' = ParseBodyLine(md, h)
        /\ pc' = IF splitHeader(h).ok THEN pc ELSE "ParseBodyReturned"
    /\ nlines' = nlines + 1
    /\ UNCHANGED <<scanVars, b2, err, m, received, b, Parts, ch, closed, cpc, held, stack, given>>

\* for scanner.Scan() { ... }: the scanner yields one more line, which is applied.
ParseBodyScan ==
    /\ pc = "ParseBody"
    /\ nlines < MaxLines
    /\ \E h \in BodyLines :
        /\ line' = h
        /\ md' = ParseBodyLine(md, h)
    /\ nlines' = nlines + 1
    /\ UNCHANGED <<scanVars, b2, parseVars, given>>

\* scanner.Scan() returns false: ParseBody returns m and a nil error.
ParseBodyReturn ==
    /\ pc = "ParseBody"
    /\ pc' = "ParseBodyReturned"
    /\ err' = NilError
    /\ UNCHANGED <<scanVars, b2, m, received, b, Parts, ch, closed, cpc, held, stack,
                   md, line, nlines, given>>

NextBody == ParseBodyScan \/ ParseBodyReturn

SpecBody == InitBody /\ [][NextBody]_vars

\* ------------------------------------ ParseBody, over the text of the body

LF == "\n"
CR == "\r"

\* bufio.MaxScanTokenSize (64 * 1024): the largest buffer of the Scanner
\* that bufio.NewScanner returns
MaxScanTokenSize == 65536

\* One element of a text that stands for a run of MaxScanTokenSize bytes "x".
Filler == "x..x"

\* len(s), in bytes
RECURSIVE ByteLen(_)
ByteLen(s) ==
    IF s = <<>>
    THEN 0
    ELSE (IF Head(s) = Filler THEN MaxScanTokenSize ELSE 1) + ByteLen(Tail(s))

\* dropCR of bufio: one trailing \r is dropped
dropCR(data) ==
    IF data # <<>> /\ data[Len(data)] = CR
    THEN SubSeq(data, 1, Len(data) - 1)
    ELSE data

\* bufio.ScanLines on the unread text: the bytes up to the first \n, or all
\* of them when there is none, the token made of them and the text after.
ScanLines(data) ==
    LET i == Index(data, <<LF>>)
    IN  IF i > 0
        THEN [raw   |-> SubSeq(data, 1, i - 1),
              token |-> dropCR(SubSeq(data, 1, i - 1)),
              after |-> SubSeq(data, i + 1, Len(data))]
        ELSE [raw |-> data, token |-> dropCR(data), after |-> <<>>]

\* Scanner.Scan gives up with ErrTooLong: the buffer has grown to
\* MaxScanTokenSize bytes, is full, and holds no \n.
TooLong(data) == ByteLen(ScanLines(data).raw) >= MaxScanTokenSize

\* The lines the texts are written from: header lines, a line of plain text,
\* a header line longer than the scanner's buffer, an empty line.
ScanSampleLines ==
    { Header(KeySender, AddrAUp),
      Header(KeyTo, AddrB),
      <<"t", "e", "x", "t">>,
      Header(KeySubject, <<Filler>>),
      <<>> }

\* The newline conventions: Unix, Windows/Internet, classic Mac OS.
Terminators == { <<LF>>, <<CR, LF>>, <<CR>> }

\* The text of the given lines, each followed by its terminator, the last
\* one only if final.
RECURSIVE Terminated(_, _, _)
Terminated(lines, terms, final) ==
    IF lines = <<>>
    THEN <<>>
    ELSE lines[1]
         \o (IF Len(lines) > 1 \/ final THEN terms[1] ELSE <<>>)
         \o Terminated(Tail(lines), Tail(terms), final)

ScanTexts ==
    UNION {{Terminated(l, t, f) :
                l \in [1..k -> ScanSampleLines], t \in [1..k -> Terminators], f \in BOOLEAN}
           : k \in 0..MaxLines}

\* ParseBody(b): m = &Metadata{}; scanner := bufio.NewScanner(strings.NewReader(b))
InitScan ==
    /\ pc = "ParseBody"
    /\ ParseIdle
    /\ md = EmptyMetadata
    /\ line = <<>>
    /\ nlines = 0
    /\ given = NoneGiven
    /\ bodyText \in ScanTexts
    /\ rest = bodyText
    /\ b2 = NoBody

\* scanner.Scan() returns true: scanner.Text() is the next line, applied to m
ScanLine ==
    /\ pc = "ParseBody"
    /\ rest # <<>>
    /\ ~TooLong(rest)
    /\ line' = ScanLines(rest).token
    /\ rest' = ScanLines(rest).after
    /\ md' = ParseBodyLine(md, line')
    /\ nlines' = nlines + 1
    /\ UNCHANGED <<parseVars, given, bodyText, b2>>

\* scanner.Scan() returns false with ErrTooLong, which ParseBody never reads
\* (no call of scanner.Err): the loop ends and ParseBody returns m, nil.
ScanTooLong ==
    /\ pc = "ParseBody"
    /\ rest # <<>>
    /\ TooLong(rest)
    /\ pc' = "ParseBodyReturned"
    /\ err' = NilError
    /\ UNCHANGED <<m, received, b, Parts, ch, closed, cpc, held, stack,
                   bodyVars, scanVars, b2>>

\* scanner.Scan() returns false at the end of the text: ParseBody returns m, nil.
ScanEnd ==
    /\ pc = "ParseBody"
    /\ rest = <<>>
    /\ pc' = "ParseBodyReturned"
    /\ err' = NilError
    /\ UNCHANGED <<m, received, b, Parts, ch, closed, cpc, held, stack,
                   bodyVars, scanVars, b2>>

NextScan == ScanLine \/ ScanTooLong \/ ScanEnd

SpecScan == InitScan /\ [][NextScan]_vars

\* --------------------------------------------------- MIME parts and trees

\* An enmime.MIMEPart: its content type, its raw content, its child parts, and
\* what re-reading its content gives: status is "unreadable" when
\* mail.ReadMessage fails on it, "undecodable" when enmime.ParseMIMEBody
\* fails, "ok" when both succeed (inner then holds the decoded Root), and
\* "none" for a part that is not message/rfc822 (its content is never re-read).
Rfc822 == "message/rfc822"
Mixed  == "multipart/mixed"
Alternative == "multipart/alternative"
Plain  == "text/plain"

ContainerTypes == {Mixed, Alternative}

PlainLeaf == [ct |-> Plain, kids |-> <<>>, status |-> "none", inner |-> <<>>, content |-> <<>>]
Container(ct, kids) == [ct |-> ct, kids |-> kids, status |-> "none", inner |-> <<>>, content |-> <<>>]
Wrapped(root) == [ct |-> Rfc822, kids |-> <<>>, status |-> "ok", inner |-> <<root>>, content |-> <<>>]
Broken(status) == [ct |-> Rfc822, kids |-> <<>>, status |-> status, inner |-> <<>>, content |-> <<>>]

\* Trees with exactly n parts, counting the parts of re-wrapped messages.
RECURSIVE TreesOfSize(_), ForestsOfSize(_)
TreesOfSize(n) ==
    IF n = 1
    THEN {PlainLeaf, Broken("unreadable"), Broken("undecodable")}
    ELSE {Container(ct, f) : ct \in ContainerTypes, f \in ForestsOfSize(n - 1)}
         \cup {Wrapped(t) : t \in TreesOfSize(n - 1)}
ForestsOfSize(n) ==
    IF n = 0
    THEN {<<>>}
    ELSE UNION {{<<t>> \o f : t \in TreesOfSize(k), f \in ForestsOfSize(n - k)} : k \in 1..n}

\* Every part gets its own content: the path that leads to it.
RECURSIVE Label(_, _)
Label(t, path) ==
    [ct |-> t.ct,
     kids |-> [i \in DOMAIN t.kids |-> Label(t.kids[i], Append(path, i))],
     status |-> t.status,
     inner |-> [i \in DOMAIN t.inner |-> Label(t.inner[i], Append(path, 0))],
     content |-> path]

\* The wrapped message of spec section 8: one plain leaf and one nested
\* message/rfc822 that holds two further leaves.
ScenarioTree ==
    Wrapped(Container(Mixed,
        <<PlainLeaf, Wrapped(Container(Mixed, <<PlainLeaf, PlainLeaf>>))>>))

WrappedTrees ==
    {Label(t, <<>>) : t \in (UNION {TreesOfSize(n) : n \in 1..MaxNodes}) \cup {ScenarioTree}}

\* enmime.DepthMatchAll(part, always true): the part and all its descendants,
\* depth first.
RECURSIVE DepthMatchAll(_), DepthMatchKids(_)
DepthMatchAll(p) == <<p>> \o DepthMatchKids(p.kids)
DepthMatchKids(kids) ==
    IF kids = <<>> THEN <<>> ELSE DepthMatchAll(Head(kids)) \o DepthMatchKids(Tail(kids))

\* sha256.Sum256 printed with %x: a digest that stands for the bytes it was
\* computed from.
Sum256(bytes) == [alg |-> "sha256", of |-> bytes]

\* The Part the collector builds from a received MIME part (line 86).
MkPart(p) ==
    [FileName |-> <<>>, ContentType |-> p.ct, Content |-> p.content,
     SHA256 |-> Sum256(p.content)]

\* A collector that puts the new Part in front
PrependPart(parts, p) == <<MkPart(p)>> \o parts

\* m.Parts = append(m.Parts, &Part{...})
AppendPart(parts, p) == Append(parts, MkPart(p))

\* extractParts, the switch on p.ContentType() without its multipart/mixed case
DispatchNoMixed(p) ==
    IF p.ct = Rfc822 THEN "rfc822" ELSE "emit"

\* extractParts, the switch on p.ContentType()
Dispatch(p) ==
    IF p.ct = Rfc822 THEN "rfc822"
    ELSE IF p.ct = Mixed THEN "skip"
    ELSE "emit"

\* A call of extractParts: the list it ranges over and the index it is at.
Frame(part) == [list |-> DepthMatchAll(part), i |-> 1]

\* ------------------------------------------------------------------ Parse

\* make(chan enmime.MIMEPart, 1): the capacity of partCollector
ChanCap == 1

Digits == <<"0", "1", "2", "3", "4", "5", "6", "7", "8", "9">>

\* strconv.Itoa for n >= 0
RECURSIVE Itoa(_)
Itoa(n) == IF n < 10 THEN <<Digits[n + 1]>> ELSE Itoa(n \div 10) \o <<Digits[(n % 10) + 1]>>

\* The lines of the envelope's text body, for the bodies Parse is run on.
SampleBodies ==
    { <<>>,
      << Header(KeySender, AddrAUp),
         Header(KeyTo, AddrA \o CommaExpanded \o AddrB),
         Header(KeyBcc, AddrB) >> }

\* b.OtherParts: none, the wrapped message alone, or several parts.
OtherPartsChoices ==
    {<<>>} \cup {<<t>> : t \in WrappedTrees}
           \cup {[i \in 1..k |-> Label(PlainLeaf, <<i>>)] : k \in 2..MaxOther}

\* The test of line 69 as n >= 1
CountAtLeastOne(n) == n >= 1

\* The test of line 69: exactly one non-text part
CountIsOne(n) == n = 1

Init ==
    /\ pc = "ReadOuter"
    /\ ParseIdle
    /\ NoScan
    /\ md = EmptyMetadata
    /\ line = <<>>
    /\ nlines = 0
    /\ given = NoneGiven

\* env, err := mail.ReadMessage(in); if err != nil { return }
ReadOuter ==
    /\ pc = "ReadOuter"
    /\ \E ok \in BOOLEAN :
        IF ok
        THEN pc' = "ReadTimestamp" /\ err' = NilError
        ELSE pc' = "Failed" /\ err' = Error(<<"mail.ReadMessage">>)
    /\ UNCHANGED <<scanVars, b2, m, received, b, Parts, ch, closed, cpc, held, stack, bodyVars>>

\* received, err := env.Header.Date(); if err != nil { return nil, err }
ReadTimestamp ==
    /\ pc = "ReadTimestamp"
    /\ \E ok \in BOOLEAN :
        IF ok
        THEN pc' = "DecodeOuterBody" /\ err' = NilError /\ received' = "date" /\ m' = m
        ELSE pc' = "Failed" /\ err' = Error(<<"Header.Date">>) /\ received' = received
             /\ m' = NilMessage
    /\ UNCHANGED <<scanVars, b2, b, Parts, ch, closed, cpc, held, stack, bodyVars>>

\* b, err := enmime.ParseMIMEBody(env); if err != nil { return }
DecodeOuterBody ==
    /\ pc = "DecodeOuterBody"
    /\ \/ /\ pc' = "Failed"
          /\ err' = Error(<<"enmime.ParseMIMEBody">>)
          /\ b' = b
       \/ /\ pc' = "ExtractMetadata"
          /\ err' = NilError
          /\ \E text \in SampleBodies, others \in OtherPartsChoices :
                b' = [ok |-> TRUE, Text |-> text, OtherParts |-> others]
    /\ UNCHANGED <<scanVars, b2, m, received, Parts, ch, closed, cpc, held, stack, bodyVars>>

\* md, err := ParseBody(b.Text): ParseBody never returns an error
ExtractMetadata ==
    /\ pc = "ExtractMetadata"
    /\ md' = ParseBody(b.Text)
    /\ err' = NilError
    /\ pc' = "LocateWrappedMessage"
    /\ UNCHANGED <<scanVars, b2, m, received, b, Parts, ch, closed, cpc, held, stack, line, nlines, given>>

\* A Parse that builds its Message before the count is tested, and returns it
\* with the error
LocateKeepsMessage ==
    /\ pc = "LocateWrappedMessage"
    /\ m' = [nil |-> FALSE, SHA256 |-> NoHash, Metadata |-> md]
    /\ IF CountIsOne(Len(b.OtherParts))
       THEN pc' = "HashWrappedMessage" /\ err' = err
       ELSE /\ pc' = "Failed"
            /\ err' = Error(<<"Expected 1 MIME message in the envolope, but got ">>
                             \o Itoa(Len(b.OtherParts)))
    /\ UNCHANGED <<scanVars, b2, received, b, Parts, ch, closed, cpc, held, stack, bodyVars>>

\* if len(b.OtherParts) != 1 { err = errors.New(...); return }
LocateWrappedMessage ==
    /\ pc = "LocateWrappedMessage"
    /\ IF CountIsOne(Len(b.OtherParts))
       THEN pc' = "HashWrappedMessage" /\ err' = err
       ELSE /\ pc' = "Failed"
            /\ err' = Error(<<"Expected 1 MIME message in the envolope, but got ">>
                             \o Itoa(Len(b.OtherParts)))
    /\ UNCHANGED <<scanVars, b2, m, received, b, Parts, ch, closed, cpc, held, stack, bodyVars>>

\* md.Timestamp = received; h := sha256 of the wrapped content; m = &Message{...}
HashWrappedMessage ==
    /\ pc = "HashWrappedMessage"
    /\ md' = [md EXCEPT !.Timestamp = received]
    /\ m' = [nil |-> FALSE, SHA256 |-> Sum256(b.OtherParts[1].content), Metadata |-> md']
    /\ Parts' = <<>>
    /\ pc' = "StartCollector"
    /\ UNCHANGED <<scanVars, b2, err, received, b, ch, closed, cpc, held, stack, line, nlines, given>>

\* partCollector := make(chan enmime.MIMEPart, 1); go func() {...}();
\* then the call extractParts(b.OtherParts[0], partCollector)
StartCollector ==
    /\ pc = "StartCollector"
    /\ ch' = <<>>
    /\ closed' = FALSE
    /\ cpc' = "receive"
    /\ stack' = <<Frame(b.OtherParts[1])>>
    /\ pc' = "ExtractParts"
    /\ UNCHANGED <<scanVars, b2, err, m, received, b, Parts, held, bodyVars>>

\* The frame of the innermost active call of extractParts, and its current part.
Top == stack[Len(stack)]
Cur == Top.list[Top.i]
InLoop == pc = "ExtractParts" /\ stack # <<>> /\ Top.i <= Len(Top.list)

\* The stack with the innermost call moved on to its next part.
Advance == [stack EXCEPT ![Len(stack)].i = @ + 1]

extractVars == <<err, m, received, b, Parts, closed, cpc, held, bodyVars>>

\* case `message/rfc822`, mail.ReadMessage fails: log.Fatalln ends the process
ExtractFatal ==
    /\ InLoop
    /\ Dispatch(Cur) = "rfc822"
    /\ Cur.status = "unreadable"
    /\ pc' = "Exited"
    /\ UNCHANGED <<scanVars, b2, stack, ch, extractVars>>

\* The same case with break in place of continue: the range loop is left
ExtractStopUndecodable ==
    /\ InLoop
    /\ Dispatch(Cur) = "rfc822"
    /\ Cur.status = "undecodable"
    /\ stack' = [stack EXCEPT ![Len(stack)].i = Len(Top.list) + 1]
    /\ UNCHANGED <<scanVars, b2, pc, ch, extractVars>>

\* case `message/rfc822`, enmime.ParseMIMEBody fails: log.Println; continue
ExtractSkipUndecodable ==
    /\ InLoop
    /\ Dispatch(Cur) = "rfc822"
    /\ Cur.status = "undecodable"
    /\ stack' = Advance
    /\ UNCHANGED <<scanVars, b2, pc, ch, extractVars>>

\* case `message/rfc822`, both succeed: extractParts(p2.Root, ch)
ExtractRecurse ==
    /\ InLoop
    /\ Dispatch(Cur) = "rfc822"
    /\ Cur.status = "ok"
    /\ stack' = Append(Advance, Frame(Cur.inner[1]))
    /\ UNCHANGED <<scanVars, b2, pc, ch, extractVars>>

\* case "multipart/mixed": continue
ExtractSkipMixed ==
    /\ InLoop
    /\ Dispatch(Cur) = "skip"
    /\ stack' = Advance
    /\ UNCHANGED <<scanVars, b2, pc, ch, extractVars>>

\* default: ch <- p, which blocks while the buffer is full
ExtractEmit ==
    /\ InLoop
    /\ Dispatch(Cur) = "emit"
    /\ Len(ch) < ChanCap
    /\ ch' = Append(ch, Cur)
    /\ stack' = Advance
    /\ UNCHANGED <<scanVars, b2, pc, extractVars>>

\* The range loop of a call is over: the call returns to its caller, the
\* outermost one to Parse.
ExtractReturn ==
    /\ pc = "ExtractParts"
    /\ stack # <<>>
    /\ Top.i > Len(Top.list)
    /\ stack' = SubSeq(stack, 1, Len(stack) - 1)
    /\ pc' = IF Len(stack) = 1 THEN "Close" ELSE pc
    /\ UNCHANGED <<scanVars, b2, ch, extractVars>>

\* close(partCollector)
CloseCollector ==
    /\ pc = "Close"
    /\ closed' = TRUE
    /\ pc' = "Return"
    /\ UNCHANGED <<scanVars, b2, err, m, received, b, Parts, ch, cpc, held, stack, bodyVars>>

\* return: the caller gets m and err
Return ==
    /\ pc = "Return"
    /\ pc' = "Done"
    /\ UNCHANGED <<scanVars, b2, err, m, received, b, Parts, ch, closed, cpc, held, stack, bodyVars>>

\* The process is alive: log.Fatalln has not ended it.
Alive == pc # "Exited"

\* for p := range partCollector: the collector receives the next part
CollectorReceive ==
    /\ Alive
    /\ cpc = "receive"
    /\ ch # <<>>
    /\ held' = Head(ch)
    /\ ch' = Tail(ch)
    /\ cpc' = "append"
    /\ UNCHANGED <<scanVars, b2, pc, err, m, received, b, Parts, closed, stack, bodyVars>>

\* m.Parts = append(m.Parts, &Part{...})
CollectorAppend ==
    /\ Alive
    /\ cpc = "append"
    /\ Parts' = AppendPart(Parts, held)
    /\ cpc' = "receive"
    /\ UNCHANGED <<scanVars, b2, pc, err, m, received, b, ch, closed, held, stack, bodyVars>>

\* the channel is closed and drained: the range loop and the goroutine end
CollectorExit ==
    /\ Alive
    /\ cpc = "receive"
    /\ ch = <<>>
    /\ closed
    /\ cpc' = "exited"
    /\ UNCHANGED <<scanVars, b2, pc, err, m, received, b, Parts, ch, closed, held, stack, bodyVars>>

Next ==
    \/ ReadOuter
    \/ ReadTimestamp
    \/ DecodeOuterBody
    \/ ExtractMetadata
    \/ LocateWrappedMessage
    \/ HashWrappedMessage
    \/ StartCollector
    \/ ExtractFatal
    \/ ExtractSkipUndecodable
    \/ ExtractRecurse
    \/ ExtractSkipMixed
    \/ ExtractEmit
    \/ ExtractReturn
    \/ CloseCollector
    \/ Return
    \/ CollectorReceive
    \/ CollectorAppend
    \/ CollectorExit

Spec == Init /\ [][Next]_vars

\* ------------------------------------- recipient values, one at a time

\* The header value that lists addrs, joined by seps.
RECURSIVE Join(_, _)
Join(addrs, seps) ==
    IF Len(addrs) <= 1
    THEN (IF addrs = <<>> THEN <<>> ELSE addrs[1])
    ELSE addrs[1] \o seps[1] \o Join(Tail(addrs), Tail(seps))

GivenLists ==
    UNION {{[addrs |-> a, seps |-> s] : a \in [1..k -> Addrs], s \in [1..(k - 1) -> Separators]}
           : k \in 1..MaxAddrs}

InitRecipient ==
    /\ pc = "Recipient"
    /\ ParseIdle
    /\ NoScan
    /\ md = EmptyMetadata
    /\ line = <<>>
    /\ nlines = 0
    /\ given \in GivenLists

\* ParseBody (envelope.go) on a body of one To or Recipient line
ApplyRecipient ==
    /\ pc = "Recipient"
    /\ \E k \in {KeyTo, KeyRecipient} : line' = Header(k, Join(given.addrs, given.seps))
    /\ md' = ParseBodyLine(EmptyMetadata, line')
    /\ nlines' = 1
    /\ pc' = "RecipientApplied"
    /\ UNCHANGED <<scanVars, b2, err, m, received, b, Parts, ch, closed, cpc, held, stack, given>>

\* ParseBody (part_000) on a body of one To or Recipient line
ApplyRecipient_p0 ==
    /\ pc = "Recipient"
    /\ \E k \in {KeyTo, KeyRecipient} : line' = Header(k, Join(given.addrs, given.seps))
    /\ md' = ParseBodyLine_p0(EmptyMetadata, line')
    /\ nlines' = 1
    /\ pc' = "RecipientApplied_p0"
    /\ UNCHANGED <<scanVars, b2, err, m, received, b, Parts, ch, closed, cpc, held, stack, given>>

NextRecipient == ApplyRecipient \/ ApplyRecipient_p0

SpecRecipient == InitRecipient /\ [][NextRecipient]_vars

\* ------------------------------- Parse of the text-conversion variant

\* Attachments of one decoded message.
MaxAttachments == 2

\* &Metadata{} of part_000, whose time field is JournalTimestamp
EmptyMetadata_p0 ==
    [Sender |-> <<>>, OnBehalfOf |-> <<>>, Subject |-> <<>>, MessageID |-> <<>>,
     To |-> <<>>, CC |-> <<>>, BCC |-> <<>>, JournalTimestamp |-> "zero"]

\* ParseBody of part_000 over a whole body, given as the lines scanned.
RECURSIVE ParseBodyFrom_p0(_, _)
ParseBodyFrom_p0(mt, lines) ==
    IF lines = <<>>
    THEN mt
    ELSE ParseBodyFrom_p0(ParseBodyLine_p0(mt, Head(lines)), Tail(lines))

ParseBody_p0(lines) == ParseBodyFrom_p0(EmptyMetadata_p0, lines)

\* The named result m of part_000's Parse before it is assigned
NilMessage_p0 == [nil |-> TRUE, Metadata |-> EmptyMetadata_p0, BodyText |-> <<>>]

\* An attachment of a decoded message: its content type and its content.
AttachmentTypes == {"application/rtf", Plain}

\* The Attachments of a decoded message: none, or up to MaxAttachments,
\* the content of each being its position.
AttachmentLists ==
    UNION {{[i \in 1..k |-> [ct |-> types[i], content |-> <<i>>]]
                : types \in [1..k -> AttachmentTypes]}
           : k \in 0..MaxAttachments}

\* What t.Parse returns for an attachment: the text Tika extracts from it.
TikaText(a) == <<"text of", a.ct, a.content>>

InitTika ==
    /\ pc = "ReadOuter_p0"
    /\ err = NilError
    /\ m = NilMessage_p0
    /\ received = "zero"
    /\ b = NoBody
    /\ Parts = <<>>
    /\ ch = <<>>
    /\ closed = FALSE
    /\ cpc = "none"
    /\ held = NoPart
    /\ stack = <<>>
    /\ md = EmptyMetadata_p0
    /\ line = <<>>
    /\ nlines = 0
    /\ given = NoneGiven
    /\ NoScan

\* What part_000's Parse never touches.
idleVars == <<Parts, ch, closed, cpc, held, stack, line, nlines, given, scanVars>>

\* env, err := mail.ReadMessage(in); if err != nil { return }
ReadOuter_p0 ==
    /\ pc = "ReadOuter_p0"
    /\ \E ok \in BOOLEAN :
        IF ok
        THEN pc' = "ReadTimestamp_p0" /\ err' = NilError
        ELSE pc' = "Failed" /\ err' = Error(<<"mail.ReadMessage">>)
    /\ UNCHANGED <<m, received, b, b2, md, idleVars>>

\* received, err := env.Header.Date(); if err != nil { return nil, err }
ReadTimestamp_p0 ==
    /\ pc = "ReadTimestamp_p0"
    /\ \E ok \in BOOLEAN :
        IF ok
        THEN pc' = "DecodeOuterBody_p0" /\ err' = NilError /\ received' = "date"
        ELSE pc' = "Failed" /\ err' = Error(<<"Header.Date">>) /\ received' = received
    /\ m' = NilMessage_p0
    /\ UNCHANGED <<b, b2, md, idleVars>>

\* b, err := enmime.ParseMIMEBody(env); if err != nil { return }
DecodeOuterBody_p0 ==
    /\ pc = "DecodeOuterBody_p0"
    /\ \/ /\ pc' = "Failed"
          /\ err' = Error(<<"enmime.ParseMIMEBody">>)
          /\ b' = b
       \/ /\ pc' = "ExtractMetadata_p0"
          /\ err' = NilError
          /\ \E t \in SampleBodies, k \in 0..MaxOther, atts \in AttachmentLists :
                b' = [ok |-> TRUE, Text |-> t,
                      OtherParts |-> [i \in 1..k |-> Label(PlainLeaf, <<i>>)],
                      Attachments |-> atts]
    /\ UNCHANGED <<m, received, b2, md, idleVars>>

\* md, err := ParseBody(b.Text): ParseBody never returns an error
ExtractMetadata_p0 ==
    /\ pc = "ExtractMetadata_p0"
    /\ md' = ParseBody_p0(b.Text)
    /\ err' = NilError
    /\ pc' = "LocateWrappedMessage_p0"
    /\ UNCHANGED <<m, received, b, b2, idleVars>>

\* if len(b.OtherParts) != 1 { err = errors.New(...); return }
LocateWrappedMessage_p0 ==
    /\ pc = "LocateWrappedMessage_p0"
    /\ IF Len(b.OtherParts) = 1
       THEN pc' = "ReadWrapped_p0" /\ err' = err
       ELSE /\ pc' = "Failed"
            /\ err' = Error(<<"Expected 1 MIME message in the envolope, but got ">>
                             \o Itoa(Len(b.OtherParts)))
    /\ UNCHANGED <<m, received, b, b2, md, idleVars>>

\* m2, err := mail.ReadMessage(r); if err != nil { log.Fatalln(err) }
ReadWrapped_p0 ==
    /\ pc = "ReadWrapped_p0"
    /\ \E ok \in BOOLEAN :
        IF ok
        THEN pc' = "DecodeWrapped_p0" /\ err' = NilError
        ELSE pc' = "Exited" /\ err' = Error(<<"mail.ReadMessage">>)
    /\ UNCHANGED <<m, received, b, b2, md, idleVars>>

\* b2, err := enmime.ParseMIMEBody(m2); if err != nil { return }
DecodeWrapped_p0 ==
    /\ pc = "DecodeWrapped_p0"
    /\ \/ /\ pc' = "Failed"
          /\ err' = Error(<<"enmime.ParseMIMEBody">>)
          /\ b2' = b2
       \/ /\ pc' = "CheckAttachments_p0"
          /\ err' = NilError
          /\ \E atts \in AttachmentLists :
                b2' = [ok |-> TRUE, Text |-> <<>>, OtherParts |-> <<>>, Attachments |-> atts]
    /\ UNCHANGED <<m, received, b, md, idleVars>>

\* if len(b2.Attachments) < 1 { err = errors.New(... len(b.Attachments)) }:
\* the block has no return, Parse goes on to the next statement either way
CheckAttachments_p0 ==
    /\ pc = "CheckAttachments_p0"
    /\ err' = IF Len(b2.Attachments) < 1
              THEN Error(<<"Expected at least one attachment, but got ">>
                         \o Itoa(Len(b.Attachments)))
              ELSE err
    /\ pc' = "NewTika_p0"
    /\ UNCHANGED <<m, received, b, b2, md, idleVars>>

\* t, err := tika.NewTika(...); if err != nil { return }: err is assigned anew
NewTika_p0 ==
    /\ pc = "NewTika_p0"
    /\ \E ok \in BOOLEAN :
        IF ok
        THEN pc' = "Convert_p0" /\ err' = NilError
        ELSE pc' = "Failed" /\ err' = Error(<<"tika.NewTika">>)
    /\ UNCHANGED <<m, received, b, b2, md, idleVars>>

\* data, err := t.Parse(... b2.Attachments[0] ...): the index expression
\* panics when there is no attachment
ConvertPanic_p0 ==
    /\ pc = "Convert_p0"
    /\ b2.Attachments = <<>>
    /\ pc' = "Panicked"
    /\ UNCHANGED <<err, m, received, b, b2, md, idleVars>>

\* data, err := t.Parse(...); if err != nil { return }; md.JournalTimestamp =
\* received; m = &Message{Metadata: md, BodyText: string(data)}; return
Convert_p0 ==
    /\ pc = "Convert_p0"
    /\ b2.Attachments # <<>>
    /\ \E ok \in BOOLEAN :
        IF ok
        THEN /\ pc' = "Done"
             /\ err' = NilError
             /\ md' = [md EXCEPT !.JournalTimestamp = received]
             /\ m' = [nil |-> FALSE, Metadata |-> md',
                      BodyText |-> TikaText(b2.Attachments[1])]
        ELSE /\ pc' = "Failed"
             /\ err' = Error(<<"tika.Parse">>)
             /\ UNCHANGED <<m, md>>
    /\ UNCHANGED <<received, b, b2, idleVars>>

NextTika ==
    \/ ReadOuter_p0
    \/ ReadTimestamp_p0
    \/ DecodeOuterBody_p0
    \/ ExtractMetadata_p0
    \/ LocateWrappedMessage_p0
    \/ ReadWrapped_p0
    \/ DecodeWrapped_p0
    \/ CheckAttachments_p0
    \/ NewTika_p0
    \/ ConvertPanic_p0
    \/ Convert_p0

SpecTika == InitTika /\ [][NextTika]_vars

\* ------------------------------------------------------------ properties

IsPrefix(s, t) == Len(s) <= Len(t) /\ s = SubSeq(t, 1, Len(s))

\* The wrapped-message attachment, once the outer body holds exactly one part.
HasWrapped == b.ok /\ Len(b.OtherParts) = 1
WrappedRoot == b.OtherParts[1]

\* What a traversal of the tree under p sends, in pre-order: a message/rfc822
\* part stands for the parts of its decoded tree (for nothing when it cannot
\* be decoded), a multipart/mixed part for nothing, any other part for itself.
RECURSIVE Emitted(_), EmittedKids(_)
Emitted(p) ==
    IF p.ct = Rfc822
    THEN (IF p.status = "ok" THEN Emitted(p.inner[1]) ELSE <<>>)
    ELSE (IF p.ct = Mixed THEN <<>> ELSE <<MkPart(p)>>) \o EmittedKids(p.kids)
EmittedKids(kids) ==
    IF kids = <<>> THEN <<>> ELSE Emitted(Head(kids)) \o EmittedKids(Tail(kids))

\* The leaves under p, in pre-order: the parts that are neither containers nor
\* re-wrapped messages, those of decoded re-wrapped messages included.
RECURSIVE Leaves(_), LeavesOfKids(_)
Leaves(p) ==
    IF p.ct = Rfc822
    THEN (IF p.status = "ok" THEN Leaves(p.inner[1]) ELSE <<>>)
    ELSE IF p.ct \in ContainerTypes \/ p.kids # <<>>
         THEN LeavesOfKids(p.kids)
         ELSE <<MkPart(p)>>
LeavesOfKids(kids) ==
    IF kids = <<>> THEN <<>> ELSE Leaves(Head(kids)) \o LeavesOfKids(Tail(kids))

IsLeafPart(part) == part.ContentType \notin ContainerTypes \cup {Rfc822}

\* C1: when Parse has returned a Message without error, m.Parts holds one
\* Part for every part the traversal sent to the collector.
C1_AllPartsAtReturn ==
    (pc = "Done" /\ err.nil /\ ~m.nil) => Parts = Emitted(WrappedRoot)

\* C2: in every state m.Parts lists Parts in the order the traversal emits
\* them (pre-order, nested message/rfc822 parts in place): it is a prefix of
\* the emission sequence of the wrapped tree.
C2_PartsInTraversalOrder ==
    HasWrapped => IsPrefix(Parts, Emitted(WrappedRoot))

\* C2's case: the scenario tree, all three of its leaves collected, the last
\* two of them sent by recursive calls of extractParts.
C2_Witness ==
    /\ HasWrapped
    /\ WrappedRoot = Label(ScenarioTree, <<>>)
    /\ Len(Parts) = 3
    /\ Parts[1].Content = <<0, 1>>
    /\ Parts[3].Content = <<0, 2, 0, 2>>

\* The entries a scan step added to a recipient sequence.
Added(old, new) == SubSeq(new, Len(old) + 1, Len(new))

\* One recipient sequence across a scan step that read line h: it only grows
\* at its end, holds lower-cased entries, no entry twice, and its new entries
\* stand in the order in which they are first seen in h.
NormalizedStep(old, new, h) ==
    /\ IsPrefix(old, new)
    /\ \A i \in DOMAIN new : new[i] = ToLower(new[i])
    /\ \A i, j \in DOMAIN new : i # j => new[i] # new[j]
    /\ \A i \in DOMAIN Added(old, new) : Contains(ToLower(h), Added(old, new)[i])
    /\ \A i, j \in DOMAIN Added(old, new) :
          i < j => Index(ToLower(h), Added(old, new)[i]) < Index(ToLower(h), Added(old, new)[j])

\* C3: after any sequence of body lines, each of To, CC and BCC holds only
\* lower-cased entries, no two of them equal, in first-seen order.
C3_RecipientsNormalized ==
    [][ /\ NormalizedStep(md.To, md'.To, line')
        /\ NormalizedStep(md.CC, md'.CC, line')
        /\ NormalizedStep(md.BCC, md'.BCC, line') ]_vars

\* C3's case: a To line and a Cc line in the two dialects, the second with a
\* duplicate that differs in case only.
C3_Witness ==
    /\ pc = "ParseBody"
    /\ nlines = 2
    /\ line = Header(KeyCc, AddrA \o CommaForwarded \o AddrAUp)
    /\ md.To = <<AddrA, AddrB>>
    /\ md.CC = <<AddrA>>

\* C4: a Bcc line adds its recipients to BCC and leaves To and CC unchanged,
\* in either dialect.
C4_BccWritesOnlyBcc ==
    [][ (pc = "ParseBody" /\ nlines' = nlines + 1
         /\ splitHeader(line').ok /\ splitHeader(line').k = KeyBcc)
        => (md'.To = md.To /\ md'.CC = md.CC /\ md'.BCC # <<>>) ]_vars

\* The decimal numerals of the counts the model reaches.
Numeral(n) ==
    CASE n = 0 -> "0" [] n = 1 -> "1" [] n = 2 -> "2" [] n = 3 -> "3"
      [] n = 4 -> "4" [] OTHER -> "?"

\* C5: when the decoded outer message has a number of non-text parts other
\* than one, Parse ends in Failed with no Message and an error that names the
\* count, and neither hashing nor part extraction is started.
C5_WrongCountFails ==
    (b.ok /\ Len(b.OtherParts) # 1) =>
        /\ pc \in {"ExtractMetadata", "LocateWrappedMessage", "Failed"}
        /\ m.nil /\ m.SHA256 = NoHash
        /\ cpc = "none" /\ stack = <<>> /\ ch = <<>> /\ Parts = <<>>
        /\ pc = "Failed" =>
              /\ ~err.nil
              /\ err.text = <<"Expected 1 MIME message in the envolope, but got ",
                              Numeral(Len(b.OtherParts))>>

\* C5's case: Parse has failed on an outer message with two non-text parts.
C5_Witness == pc = "Failed" /\ b.ok /\ Len(b.OtherParts) = 2

\* C6: when the top-level wrapped attachment cannot be MIME-decoded, Parse
\* fails: it returns an error and no Message.
C6_TopLevelDecodeFailureFails ==
    (/\ HasWrapped
     /\ WrappedRoot.ct = Rfc822
     /\ WrappedRoot.status = "undecodable"
     /\ pc \in {"Done", "Failed"})
    => (pc = "Failed" /\ m.nil /\ ~err.nil)

\* C7: when a message/rfc822 part met during the traversal cannot be read as
\* an RFC2822 message, the traversal is left with Parse in Failed, an error
\* and no Message for its caller.
C7_UnreadableSurfacedAsError ==
    (/\ stack # <<>>
     /\ Top.i <= Len(Top.list)
     /\ Cur.ct = Rfc822
     /\ Cur.status = "unreadable"
     /\ pc # "ExtractParts")
    => (pc = "Failed" /\ m.nil /\ ~err.nil)

\* C8: what Parse returns is (no Message, an error) after a failure and
\* (a Message, no error) at Done.
C8_ResultPair ==
    /\ pc = "Failed" => (m.nil /\ ~err.nil)
    /\ pc = "Done" => (~m.nil /\ err.nil)

\* C8's case: Parse has returned a Message that carries the envelope's date.
C8_Witness ==
    /\ pc = "Done"
    /\ ~m.nil
    /\ m.Metadata.Timestamp = "date"
    /\ m.Metadata.To = <<AddrA, AddrB>>

\* The distinct addresses of a list, lower-cased, in first-seen order.
RECURSIVE FirstSeen(_, _)
FirstSeen(seen, addrs) ==
    IF addrs = <<>>
    THEN seen
    ELSE LET a == ToLower(Head(addrs))
         IN  FirstSeen(IF \E i \in DOMAIN seen : seen[i] = a THEN seen ELSE Append(seen, a),
                       Tail(addrs))

\* C9: a recipient value that lists N distinct addresses, joined by any of
\* the dialect separators, gives from an empty start exactly those N
\* addresses, lower-cased, in first-seen order.
C9_EveryDialectSplits ==
    pc \in {"RecipientApplied", "RecipientApplied_p0"}
        => md.To = FirstSeen(<<>>, given.addrs)

\* C10: no Part has content type message/rfc822 or multipart/mixed, and once
\* the collector is done the leaves among the Parts are the leaves of the
\* wrapped tree, those of every decoded message/rfc822 part in its place.
C10_NoWrapperOrMixedPart ==
    /\ \A i \in DOMAIN Parts : Parts[i].ContentType \notin {Rfc822, Mixed}
    /\ cpc = "exited" => SelectSeq(Parts, IsLeafPart) = Leaves(WrappedRoot)

\* C10's case: a multipart/mixed root that holds a decoded message/rfc822
\* part, whose leaves have been collected.
C10_Witness ==
    /\ cpc = "exited"
    /\ WrappedRoot.ct = Mixed
    /\ \E k \in DOMAIN WrappedRoot.kids :
          /\ WrappedRoot.kids[k].ct = Rfc822
          /\ WrappedRoot.kids[k].status = "ok"
          /\ \E i \in DOMAIN Parts : Parts[i].Content = <<k, 0>>

\* C11: every part sent to the collector, and so every Part, is a leaf of its
\* decoded tree: no part that has child parts is sent, received or collected.
C11_OnlyLeavesEmitted ==
    /\ \A i \in DOMAIN ch : ch[i].kids = <<>>
    /\ cpc = "append" => held.kids = <<>>
    /\ \A i \in DOMAIN Parts : Parts[i].ContentType \notin ContainerTypes

\* A part of the tree under p, nested messages included, can be read as
\* RFC2822 but not MIME-decoded; no part of it fails to be read.
RECURSIVE HasUndecodable(_), HasUnreadable(_)
HasUndecodable(p) ==
    \/ p.ct = Rfc822 /\ p.status = "undecodable"
    \/ \E i \in DOMAIN p.kids : HasUndecodable(p.kids[i])
    \/ \E i \in DOMAIN p.inner : HasUndecodable(p.inner[i])
HasUnreadable(p) ==
    \/ p.ct = Rfc822 /\ p.status = "unreadable"
    \/ \E i \in DOMAIN p.kids : HasUnreadable(p.kids[i])
    \/ \E i \in DOMAIN p.inner : HasUnreadable(p.inner[i])

AtUndecodable == InLoop /\ Cur.ct = Rfc822 /\ Cur.status = "undecodable"

\* C12: a message/rfc822 part that reads but fails MIME decoding costs its
\* own subtree only: the step that meets it keeps the traversal going at the
\* next part with no error and nothing collected lost, and once the collector
\* is done the Parts are all the parts of the tree outside such subtrees;
\* Parse then returns the Message with no error.
C12_UndecodableSkipsSubtreeOnly ==
    [][ /\ AtUndecodable =>
              /\ pc' = "ExtractParts"
              /\ err'.nil
              /\ stack' \in {stack, Advance}
              /\ IsPrefix(Parts, Parts')
        /\ (HasWrapped' /\ HasUndecodable(WrappedRoot') /\ cpc' = "exited")
              => Parts' = Emitted(WrappedRoot')
        /\ (HasWrapped' /\ HasUndecodable(WrappedRoot') /\ pc' = "Done")
              => (err'.nil /\ ~m'.nil) ]_vars

\* C12's case: a container whose first child cannot be decoded and whose
\* second child is a leaf; Parse is done and the leaf has been collected.
C12_Witness ==
    /\ pc = "Done"
    /\ cpc = "exited"
    /\ WrappedRoot.kids # <<>>
    /\ WrappedRoot.kids[1].ct = Rfc822
    /\ WrappedRoot.kids[1].status = "undecodable"
    /\ \E i \in DOMAIN Parts : Parts[i].Content = <<2>>

\* The positions of Parse before the traversal starts: each has a step left,
\* its action being guarded by the position alone.
BeforeTraversal ==
    {"ReadOuter", "ReadTimestamp", "DecodeOuterBody", "ExtractMetadata",
     "LocateWrappedMessage", "HashWrappedMessage", "StartCollector"}

\* C13: every run of Parse ends in Done or in Failed: a state in which no
\* step is left is one of these two, with the channel closed and the
\* collector ended when the traversal had been started.
C13_EndsInDoneOrFailed ==
    (pc \notin BeforeTraversal /\ ~ENABLED Next) =>
        /\ pc \in {"Done", "Failed"}
        /\ pc = "Done" => (closed /\ cpc = "exited" /\ ch = <<>>)

\* C17: once Parse has returned the Message, m.Parts is never written again.
C17_NoWriteAfterReturn ==
    [][ pc = "Done" => Parts' = Parts ]_vars

\* A scan step of ParseBody: the scanner has yielded line'.
ScanStep == pc = "ParseBody" /\ nlines' = nlines + 1

\* h holds the separator ": ".
HasSeparator(h) == \E i \in 1..(Len(h) - 1) : h[i] = ":" /\ h[i + 1] = " "

\* The part of h before its first ": ".
KeyOf(h) ==
    LET i == CHOOSE k \in 1..(Len(h) - 1) :
                 /\ h[k] = ":" /\ h[k + 1] = " "
                 /\ \A j \in 1..(k - 1) : ~(h[j] = ":" /\ h[j + 1] = " ")
    IN  SubSeq(h, 1, i - 1)

\* The part of h after its first ": ".
ValueOf(h) == SubSeq(h, Len(KeyOf(h)) + 3, Len(h))

RecognizedKeys ==
    {KeySender, KeyOnBehalfOf, KeySubject, KeyMessageId,
     KeyRecipient, KeyTo, KeyCc, KeyBcc}

\* h is skipped: it has no ": ", or its key is not a recognized one.
Skipped(h) == ~HasSeparator(h) \/ KeyOf(h) \notin RecognizedKeys

\* The first recipient of the header value v is in the sequence, lower-cased.
Listed(recipients, v) ==
    \E i \in DOMAIN recipients :
        recipients[i] # <<>> /\ IsPrefix(recipients[i], ToLower(v))

\* C14: a line without ": " and a line with an unrecognized key change no
\* field of the Metadata and leave the scan running; a recognized line that
\* comes right after such a line is applied (a Sender, On-Behalf-Of or
\* Subject line sets its field, a recipient line has its first recipient
\* listed); and ParseBody returns a nil error.
C14_SkippedLinesChangeNothing ==
    [][ /\ (ScanStep /\ Skipped(line')) => (md' = md /\ pc' = "ParseBody" /\ err' = err)
        /\ (ScanStep /\ nlines >= 1 /\ Skipped(line) /\ ~Skipped(line')) =>
               /\ KeyOf(line') = KeySender => md'.Sender = ToLower(ValueOf(line'))
               /\ KeyOf(line') = KeyOnBehalfOf => md'.OnBehalfOf = ValueOf(line')
               /\ KeyOf(line') = KeySubject => md'.Subject = ValueOf(line')
               /\ KeyOf(line') \in {KeyRecipient, KeyTo} => Listed(md'.To, ValueOf(line'))
               /\ KeyOf(line') = KeyCc => Listed(md'.CC, ValueOf(line'))
               /\ KeyOf(line') = KeyBcc => Listed(md'.BCC \o md'.CC, ValueOf(line'))
        /\ pc' = "ParseBodyReturned" => err'.nil ]_vars

\* C14's case: a line with an unrecognized key has been scanned after a
\* Sender line, whose value is still there, and the scan goes on.
C14_Witness ==
    /\ pc = "ParseBody"
    /\ nlines = 2
    /\ line = Header(<<"X", "-", "I", "d">>, <<"1">>)
    /\ md = [EmptyMetadata EXCEPT !.Sender = AddrB]

\* C15: each recipient sequence the scan builds is a fixed point of
\* appendUniq against itself, and a recipient line read a second time in a
\* row changes nothing.
C15_NormalizeIdempotent ==
    [][ ScanStep =>
          /\ appendUniq(md'.To, md'.To) = md'.To
          /\ appendUniq(md'.CC, md'.CC) = md'.CC
          /\ appendUniq(md'.BCC, md'.BCC) = md'.BCC
          /\ (nlines >= 1 /\ line' = line /\ ~Skipped(line) /\ KeyOf(line) \in RecipientKeys)
                => md' = md ]_vars

\* C15's case: a To line of two addresses read as the second line, with To
\* holding the two and nothing else set.
C15_Witness ==
    /\ pc = "ParseBody"
    /\ nlines = 2
    /\ line = Header(KeyTo, AddrAUp \o CommaExpanded \o AddrB)
    /\ md = [EmptyMetadata EXCEPT !.To = <<AddrA, AddrB>>]

\* The last character of a non-empty string.
Last(s) == s[Len(s)]

\* C16: a Message-Id line sets MessageID to its value less one leading "<",
\* if there is one, and then less one trailing ">", if there is one; no other
\* field changes.
C16_MessageIdBrackets ==
    [][ (ScanStep /\ HasSeparator(line') /\ KeyOf(line') = KeyMessageId) =>
          LET v == ValueOf(line')
              a == IF v # <<>> /\ Head(v) = "<" THEN Tail(v) ELSE v
              z == IF a # <<>> /\ Last(a) = ">" THEN SubSeq(a, 1, Len(a) - 1) ELSE a
          IN  md' = [md EXCEPT !.MessageID = z] ]_vars

\* C16's case: "Message-Id: <<a>>" has been read and MessageID is "<a>".
C16_Witness ==
    /\ nlines >= 1
    /\ line = Header(KeyMessageId, <<"<", "<", "a", ">", ">">>)
    /\ md.MessageID = <<"<", "a", ">">>

\* The lines of a text under any of the newline conventions: a line ends at
\* \r\n, at \n or at \r, and the last line needs no terminator.
RECURSIVE LinesOf(_)
LinesOf(s) ==
    IF s = <<>>
    THEN <<>>
    ELSE LET ends == {i \in DOMAIN s : s[i] \in {LF, CR}}
         IN  IF ends = {}
             THEN <<s>>
             ELSE LET i == CHOOSE k \in ends : \A j \in ends : k <= j
                      n == IF s[i] = CR /\ i < Len(s) /\ s[i + 1] = LF THEN 2 ELSE 1
                  IN  <<SubSeq(s, 1, i - 1)>> \o LinesOf(SubSeq(s, i + n, Len(s)))

\* C18: when ParseBody returns, the Metadata is that of all the lines of the
\* body text, under any newline convention and whatever their length.
C18_EveryLineApplied ==
    pc = "ParseBodyReturned" => md = ParseBody(LinesOf(bodyText))

\* C19: in the text-conversion variant, once the wrapped message is found to
\* have no attachment, Parse has failed with the error that says so and with
\* no Message: it is not at the creation of the Tika client, nor at the
\* conversion of Attachments[0], nor past them.
C19_NoAttachmentFails ==
    (b2.ok /\ b2.Attachments = <<>> /\ pc # "CheckAttachments_p0") =>
        /\ pc = "Failed"
        /\ m.nil
        /\ err = Error(<<"Expected at least one attachment, but got ">> \o <<"0">>)

====
